---- MODULE Spec2Model ----
(***************************************************************************)
(* Event-sourcing / CQRS kernel of python_event_sourcing_cqrs:             *)
(* domain.py (Event, Entity, Account), persistance.py (EventStore,         *)
(* Repository), read_model.py (BalanceView, Reader), app.py (AccountApp)   *)
(* and internal_dsl.py (Driver).                                           *)
(*                                                                         *)
(* A Python object is modelled by its attribute dictionary: a record whose *)
(* DOMAIN is the set of attributes assigned so far.  An operation that may *)
(* raise returns [err, obj]: the exception's name ("none" when it returns  *)
(* normally) and the object as the operation left it.                      *)
(***************************************************************************)
EXTENDS Integers, Sequences, FiniteSets, TLC

\* ---- bounds ------------------------------------------------------------
MaxIds == 2
MaxSlots == 2
MaxStream == 4
MaxChanges == 3
MaxStored == 3
MaxBatch == 2
MaxHandlers == 3

\* The values uuid4() can return.
Uuid(i) == "uuid" \o ToString(i)
UUID == {Uuid(i) : i \in 1..MaxIds}
\* The Money values callers pass: amounts to withdraw and opening deposits.
Amounts == {1, 2}
Deposits == {2}
\* The Money values handed to the Driver, zero included.
DriverMoney == {0, 1, 2, 3}
Slots == 1..MaxSlots

\* ---- domain.py: events --------------------------------------------------
Event(producer_id) ==
    [type |-> "Event", producer_id |-> producer_id]

AccountCreated(producer_id, deposit) ==
    [type |-> "AccountCreated", producer_id |-> producer_id, deposit |-> deposit]

MoneyWithdrawn(producer_id, amount) ==
    [type |-> "MoneyWithdrawn", producer_id |-> producer_id, amount |-> amount]

Returned(obj) == [err |-> "none", obj |-> obj]
Raised(exc, obj) == [err |-> exc, obj |-> obj]

\* ---- domain.py: Entity / Account ----------------------------------------
\* Entity._constructor: _id is only annotated, _changes is an empty deque.
construct ==
    [_changes |-> <<>>]

HasAttr(self, name) == name \in DOMAIN self

SetAttr(self, name, value) == (name :> value) @@ self

\* Entity.id: reading _id before any AccountCreated was applied raises.
id(self) ==
    IF HasAttr(self, "_id") THEN Returned(self._id)
    ELSE Raised("AttributeError", "")

uncommitted_changes(self) == self._changes

\* Account._apply, single dispatch on the event's type; the fallback is
\* Entity._apply, which raises UnknownEvent.
_apply(self, event) ==
    CASE event.type = "AccountCreated" ->
           Returned(SetAttr(SetAttr(self, "_id", event.producer_id),
                            "_balance", event.deposit))
      [] event.type = "MoneyWithdrawn" ->
           IF HasAttr(self, "_balance")
           THEN Returned(SetAttr(self, "_balance", self._balance - event.amount))
           ELSE Raised("AttributeError", self)
      [] OTHER -> Raised("UnknownEvent", self)

\* Mutant of _take: the event is applied but never buffered.
_take_no_buffer(self, event) ==
    _apply(self, event)

\* Mutant of _take: buffer, then apply.
_take_buffer_first(self, event) ==
    LET buffered == [self EXCEPT !._changes = Append(@, event)]
        r == _apply(buffered, event)
    IN  IF r.err = "none" THEN r ELSE Raised(r.err, buffered)

\* Entity._take: apply, then buffer.
_take(self, event) ==
    LET r == _apply(self, event)
    IN  IF r.err = "none"
        THEN Returned([r.obj EXCEPT !._changes = Append(@, event)])
        ELSE r

\* Mutant of hydrate: the replayed event is buffered like a new one.
hydrate_buffering(self, event) ==
    _take(self, event)

\* Entity.hydrate: apply without buffering.
hydrate(self, event) ==
    _apply(self, event)

\* Account.__init__(deposit); uuid is the value uuid4() returned.
Account(uuid, deposit) ==
    _take(construct, AccountCreated(uuid, deposit))

\* Mutant of withdraw: the whole balance can no longer be withdrawn.
withdraw_strict(self, amount) ==
    IF ~HasAttr(self, "_balance") THEN Raised("AttributeError", self)
    ELSE IF self._balance > amount
         THEN _take(self, MoneyWithdrawn(self._id, amount))
         ELSE Raised("NotEnoughMoney", self)

\* Mutant of withdraw: the event is taken before the balance is checked.
withdraw_take_first(self, amount) ==
    IF ~HasAttr(self, "_balance") THEN Raised("AttributeError", self)
    ELSE IF self._balance >= amount
         THEN _take(self, MoneyWithdrawn(self._id, amount))
         ELSE Raised("NotEnoughMoney",
                     _take(self, MoneyWithdrawn(self._id, amount)).obj)

\* Mutant of withdraw: the event does not carry the account's id.
withdraw_anonymous(self, amount) ==
    IF ~HasAttr(self, "_balance") THEN Raised("AttributeError", self)
    ELSE IF self._balance >= amount
         THEN _take(self, MoneyWithdrawn("", amount))
         ELSE Raised("NotEnoughMoney", self)

\* Mutant of withdraw: the balance is not checked.
withdraw_unchecked(self, amount) ==
    IF ~HasAttr(self, "_balance") THEN Raised("AttributeError", self)
    ELSE _take(self, MoneyWithdrawn(self._id, amount))

\* Account.withdraw
withdraw(self, amount) ==
    IF ~HasAttr(self, "_balance") THEN Raised("AttributeError", self)
    ELSE IF self._balance >= amount
         THEN _take(self, MoneyWithdrawn(self._id, amount))
         ELSE Raised("NotEnoughMoney", self)

\* functools.reduce(Repository._apply_event, changes, root): the fold stops
\* at the first event whose hydrate raises.
RECURSIVE reduce__apply_event(_, _)
reduce__apply_event(changes, root) ==
    IF changes = <<>> THEN Returned(root)
    ELSE LET r == hydrate(root, Head(changes))
         IN  IF r.err = "none"
             THEN reduce__apply_event(Tail(changes), r.obj)
             ELSE r

\* ---- persistance.py: EventStore ------------------------------------------
\* EventStore.__init__: an empty deque and an empty defaultdict(deque).
EventStore ==
    [_global_stream |-> <<>>, _event_streams |-> <<>>]

\* defaultdict.__getitem__: a missing key is inserted with an empty deque.
getitem_default(streams, key) ==
    IF key \in DOMAIN streams THEN streams ELSE (key :> <<>>) @@ streams

\* deque.extendleft(events): each event is pushed on the left in turn.
RECURSIVE extendleft(_, _)
extendleft(stream, events) ==
    IF events = <<>> THEN stream
    ELSE extendleft(<<Head(events)>> \o stream, Tail(events))

\* Mutant of store: the producer's stream is extended on the left.
store_stream_extendleft(self, producer_id, events) ==
    LET streams == getitem_default(self._event_streams, producer_id)
    IN  [_global_stream |-> self._global_stream \o events,
         _event_streams |->
            [streams EXCEPT ![producer_id] = extendleft(streams[producer_id], events)]]

\* Mutant of store: the global stream is extended on the left.
store_global_extendleft(self, producer_id, events) ==
    LET streams == getitem_default(self._event_streams, producer_id)
    IN  [_global_stream |-> extendleft(self._global_stream, events),
         _event_streams |->
            [streams EXCEPT ![producer_id] = streams[producer_id] \o events]]

\* Mutant of store: the producer's stream is replaced, not extended.
store_overwrite(self, producer_id, events) ==
    LET streams == getitem_default(self._event_streams, producer_id)
    IN  [_global_stream |-> self._global_stream \o events,
         _event_streams |-> [streams EXCEPT ![producer_id] = events]]

\* EventStore.store: extend the global stream, then the producer's stream.
store(self, producer_id, events) ==
    LET streams == getitem_default(self._event_streams, producer_id)
    IN  [_global_stream |-> self._global_stream \o events,
         _event_streams |->
            [streams EXCEPT ![producer_id] = streams[producer_id] \o events]]

\* EventStore.all_events_for: the generator's items, and the store after
\* the defaultdict lookup made when the generator is created.
all_events_for(self, producer_id) ==
    LET streams == getitem_default(self._event_streams, producer_id)
    IN  [items |-> streams[producer_id],
         self  |-> [self EXCEPT !._event_streams = streams]]

\* EventStore.all_streams(self): the items of the global stream.
all_streams(self) ==
    self._global_stream

\* ---- persistance.py: Repository -------------------------------------------
\* Mutant of save: the buffer is emptied once its events are stored.
save_clearing(event_store, account) ==
    LET i == id(account)
    IN  IF i.err = "none"
        THEN [err |-> "none",
              obj |-> store(event_store, i.obj, uncommitted_changes(account)),
              account |-> [account EXCEPT !._changes = <<>>]]
        ELSE [err |-> i.err, obj |-> event_store, account |-> account]

\* Mutant of save: only the newest buffered event is stored.
save_newest(event_store, account) ==
    LET i == id(account)
        changes == uncommitted_changes(account)
    IN  IF i.err = "none"
        THEN [err |-> "none",
              obj |-> store(event_store, i.obj,
                            SubSeq(changes, Len(changes), Len(changes))),
              account |-> account]
        ELSE [err |-> i.err, obj |-> event_store, account |-> account]

\* Repository.save: account.id is read first, then uncommitted_changes.
\* [err, obj (the store), account (the entity as save leaves it)].
save(event_store, account) ==
    LET i == id(account)
    IN  IF i.err = "none"
        THEN [err |-> "none",
              obj |-> store(event_store, i.obj, uncommitted_changes(account)),
              account |-> account]
        ELSE [err |-> i.err, obj |-> event_store, account |-> account]

\* Mutant of get: an id with no stored events is reported as not found.
get_not_found(event_store, entity_id) ==
    LET changes == all_events_for(event_store, entity_id)
        final_form == reduce__apply_event(changes.items, construct)
    IN  IF changes.items = <<>>
        THEN [err |-> "KeyError", obj |-> construct, store |-> event_store]
        ELSE [err |-> final_form.err, obj |-> final_form.obj,
              store |-> changes.self]

\* Repository.get: [err, obj (the entity), store (after the lookup)].
get(event_store, entity_id) ==
    LET changes == all_events_for(event_store, entity_id)
        final_form == reduce__apply_event(changes.items, construct)
    IN  [err |-> final_form.err, obj |-> final_form.obj, store |-> changes.self]

\* ---- read_model.py: projections -------------------------------------------
\* BalanceView.__init__
BalanceView ==
    [class |-> "BalanceView", _storage |-> <<>>]

\* EventCollector.__init__ (test_event_reader_remembers_last_update_position)
EventCollector ==
    [class |-> "EventCollector", handled_events |-> <<>>]

\* BalanceView.handle, single dispatch on the event's type; the fallback
\* does nothing.  "-=" on a missing key raises KeyError.
BalanceView_handle(self, event) ==
    CASE event.type = "AccountCreated" ->
           Returned([self EXCEPT !._storage =
                        (event.producer_id :> event.deposit) @@ @])
      [] event.type = "MoneyWithdrawn" ->
           IF event.producer_id \in DOMAIN self._storage
           THEN Returned([self EXCEPT !._storage[event.producer_id] =
                             @ - event.amount])
           ELSE Raised("KeyError", self)
      [] OTHER -> Returned(self)

\* EventCollector.handle
EventCollector_handle(self, event) ==
    Returned([self EXCEPT !.handled_events = Append(@, event)])

\* handler.handle(event), by the class of the handler
handle(self, event) ==
    IF self.class = "BalanceView" THEN BalanceView_handle(self, event)
    ELSE EventCollector_handle(self, event)

\* BalanceView.for_account: the balance of the AccountDTO, or KeyError.
for_account(self, account_id) ==
    IF account_id \in DOMAIN self._storage
    THEN Returned(self._storage[account_id])
    ELSE Raised("KeyError", 0)

\* ---- read_model.py: Reader -------------------------------------------------
\* Reader.__init__: cursor 0 and an empty defaultdict(list).
Reader ==
    [_last_position |-> 0, _handlers |-> <<>>]

\* Reader.register: append read_model to the list of every given type.
RECURSIVE register(_, _, _)
register(self, read_model, events) ==
    IF events = <<>> THEN self
    ELSE LET handlers == getitem_default(self._handlers, Head(events))
         IN  register([self EXCEPT !._handlers =
                          [handlers EXCEPT ![Head(events)] = Append(@, read_model)]],
                      read_model, Tail(events))

\* The keyword parameters "def all_streams(self)" accepts.
all_streams_keywords == {}

\* A Python call of EventStore.all_streams with keyword arguments: a keyword
\* the signature does not name raises TypeError before the body runs.
call_all_streams(event_store, kwargs) ==
    IF DOMAIN kwargs \subseteq all_streams_keywords
    THEN Returned(all_streams(event_store))
    ELSE Raised("TypeError", <<>>)

\* Reader._new_events
_new_events(self, event_store) ==
    call_all_streams(event_store, [start_at |-> self._last_position])

\* Reader._mark_handled
_mark_handled(self) ==
    [self EXCEPT !._last_position = @ + 1]

\* Reader._handlers_for: a defaultdict lookup by the event's type.
_handlers_for(self, event) ==
    LET handlers == getitem_default(self._handlers, event.type)
    IN  [items |-> handlers[event.type],
         self  |-> [self EXCEPT !._handlers = handlers]]

\* Reader._handle_event: call every handler in list order; the first one
\* that raises ends the loop.  world = [err, read_models, log].
RECURSIVE call_handlers(_, _, _)
call_handlers(names, event, world) ==
    IF names = <<>> \/ world.err # "none" THEN world
    ELSE LET r == handle(world.read_models[Head(names)], event)
         IN  call_handlers(Tail(names), event,
                [err |-> r.err,
                 read_models |-> [world.read_models EXCEPT ![Head(names)] = r.obj],
                 log |-> Append(world.log, <<Head(names), event>>)])

\* Reader.update_all: for each new event, _handle_event then _mark_handled.
\* state = [err, reader, read_models, log].
RECURSIVE update_loop(_, _)
update_loop(events, state) ==
    IF events = <<>> \/ state.err # "none" THEN state
    ELSE LET h == _handlers_for(state.reader, Head(events))
             w == call_handlers(h.items, Head(events),
                     [err |-> "none", read_models |-> state.read_models,
                      log |-> state.log])
         IN  update_loop(Tail(events),
                [err |-> w.err,
                 reader |-> IF w.err = "none" THEN _mark_handled(h.self) ELSE h.self,
                 read_models |-> w.read_models,
                 log |-> w.log])

update_all(self, event_store, models, log) ==
    LET new == _new_events(self, event_store)
    IN  IF new.err # "none"
        THEN [err |-> new.err, reader |-> self, read_models |-> models, log |-> log]
        ELSE update_loop(new.obj,
                [err |-> "none", reader |-> self, read_models |-> models, log |-> log])

\* ---- app.py: AccountApp -----------------------------------------------------
\* AccountApp.handle(CreateAccount): [err, store, response (new_account_id)].
handle_CreateAccount(event_store, uuid, with_deposit) ==
    LET account == Account(uuid, with_deposit).obj
        saved == save(event_store, account)
    IN  [err |-> saved.err, store |-> saved.obj, response |-> id(account).obj]

\* AccountApp.handle(Withdraw): get, withdraw, save; the first that raises
\* ends the handler.  [err, store].
handle_Withdraw(event_store, account_id, amount) ==
    LET got == get(event_store, account_id)
        account == withdraw(got.obj, amount)
        saved == save(got.store, account.obj)
    IN  IF got.err # "none" THEN [err |-> got.err, store |-> got.store]
        ELSE IF account.err # "none" THEN [err |-> account.err, store |-> got.store]
        ELSE [err |-> saved.err, store |-> saved.obj]

\* ---- state --------------------------------------------------------------
VARIABLES
    entities,      \* the Account objects alive in the caller, in creation order
    origin,        \* per entity: "fresh" (Account(deposit)) or "replayed" (Repository.get)
    event_store,   \* the EventStore object
    store_log,     \* history: <<producer_id, event>> per event passed to EventStore.store
    reader,        \* the Reader object
    read_models,   \* the projection objects, by name
    dispatch_log,  \* history: <<read model, event>> per handler.handle call
    issued,        \* the values uuid4() has returned
    last           \* the last call made and how it ended

vars == <<entities, origin, event_store, store_log, reader, read_models,
          dispatch_log, issued, last>>

ReadModels == {"balance_view", "collector_1", "collector_2"}
EventTypes == {"AccountCreated", "MoneyWithdrawn"}

\* What the history records for store(producer_id, events).
Logged(producer_id, events) ==
    [i \in 1..Len(events) |-> <<producer_id, events[i]>>]

\* What the history records for Repository.save(account).
LoggedSave(account) ==
    IF HasAttr(account, "_id")
    THEN Logged(account._id, uncommitted_changes(account))
    ELSE <<>>

Init ==
    /\ entities = <<>>
    /\ origin = <<>>
    /\ event_store = EventStore
    /\ store_log = <<>>
    /\ reader = Reader
    /\ read_models = [m \in ReadModels |->
                        IF m = "balance_view" THEN BalanceView ELSE EventCollector]
    /\ dispatch_log = <<>>
    /\ issued = {}
    /\ last = [op |-> "init", err |-> "none"]

\* Driver.__init__: the BalanceView is registered for both event types.
InitDriver ==
    /\ entities = <<>>
    /\ origin = <<>>
    /\ event_store = EventStore
    /\ store_log = <<>>
    /\ reader = register(Reader, "balance_view", <<"AccountCreated", "MoneyWithdrawn">>)
    /\ read_models = [m \in ReadModels |->
                        IF m = "balance_view" THEN BalanceView ELSE EventCollector]
    /\ dispatch_log = <<>>
    /\ issued = {}
    /\ last = [op |-> "init", err |-> "none"]

\* uuid4(): a value never seen before.  The values are opaque and only
\* compared for equality, so the first unused one stands for any of them.
HasFreshUuid == \E u \in UUID : u \notin issued
uuid4 ==
    Uuid(CHOOSE i \in 1..MaxIds :
            Uuid(i) \notin issued /\ \A j \in 1..(i - 1) : Uuid(j) \in issued)

\* The set-up of test_event_reader_remembers_last_update_position, with a
\* second collector: both are registered for both event types before any
\* event is stored.
InitReader ==
    /\ entities = <<>>
    /\ origin = <<>>
    /\ event_store = EventStore
    /\ store_log = <<>>
    /\ reader = register(register(Reader, "collector_1",
                                   <<"AccountCreated", "MoneyWithdrawn">>),
                          "collector_2", <<"AccountCreated", "MoneyWithdrawn">>)
    /\ read_models = [m \in ReadModels |->
                        IF m = "balance_view" THEN BalanceView ELSE EventCollector]
    /\ dispatch_log = <<>>
    /\ issued = {}
    /\ last = [op |-> "init", err |-> "none"]

\* ---- actions: domain ------------------------------------------------------
\* account = Account(deposit)
NewAccount(deposit) ==
    /\ Len(entities) < MaxSlots
    /\ HasFreshUuid
    /\ entities' = Append(entities, Account(uuid4, deposit).obj)
    /\ origin' = Append(origin, "fresh")
    /\ issued' = issued \cup {uuid4}
    /\ last' = [op |-> "Account", err |-> "none", slot |-> Len(entities) + 1]
    /\ UNCHANGED <<event_store, store_log, reader, read_models, dispatch_log>>

\* entities[slot].withdraw(amount)
Withdraw(slot, amount) ==
    /\ slot \in 1..Len(entities)
    /\ Len(entities[slot]._changes) < MaxChanges
    /\ LET r == withdraw(entities[slot], amount)
       IN  /\ entities' = [entities EXCEPT ![slot] = r.obj]
           /\ last' = [op |-> "withdraw", err |-> r.err, slot |-> slot]
    /\ UNCHANGED <<origin, event_store, store_log, reader, read_models,
                   dispatch_log, issued>>

\* account = Account.construct()
Construct ==
    /\ Len(entities) < MaxSlots
    /\ entities' = Append(entities, construct)
    /\ origin' = Append(origin, "replayed")
    /\ last' = [op |-> "construct", err |-> "none", slot |-> Len(entities) + 1]
    /\ UNCHANGED <<event_store, store_log, reader, read_models, dispatch_log,
                   issued>>

\* The events handed to _take and hydrate directly: the base variant, which
\* Account registers no handler for, and a creation.
EntityEvents ==
    {Event(u) : u \in UUID} \cup {AccountCreated(u, d) : u \in UUID, d \in Deposits}

\* entities[slot]._take(event)
Take(slot, event) ==
    /\ slot \in 1..Len(entities)
    /\ Len(entities[slot]._changes) < MaxChanges
    /\ LET r == _take(entities[slot], event)
       IN  /\ entities' = [entities EXCEPT ![slot] = r.obj]
           /\ last' = [op |-> "_take", err |-> r.err, slot |-> slot]
    /\ UNCHANGED <<origin, event_store, store_log, reader, read_models,
                   dispatch_log, issued>>

\* entities[slot].hydrate(event)
Hydrate(slot, event) ==
    /\ slot \in 1..Len(entities)
    /\ LET r == hydrate(entities[slot], event)
       IN  /\ entities' = [entities EXCEPT ![slot] = r.obj]
           /\ last' = [op |-> "hydrate", err |-> r.err, slot |-> slot]
    /\ UNCHANGED <<origin, event_store, store_log, reader, read_models,
                   dispatch_log, issued>>

\* ---- actions: persistence -------------------------------------------------
\* Repository.save(entities[slot])
Save(slot) ==
    /\ slot \in 1..Len(entities)
    /\ Len(event_store._global_stream) + Len(entities[slot]._changes) <= MaxStream
    /\ LET r == save(event_store, entities[slot])
       IN  /\ event_store' = r.obj
           /\ store_log' = store_log \o LoggedSave(entities[slot])
           /\ entities' = [entities EXCEPT ![slot] = r.account]
           /\ last' = [op |-> "save", err |-> r.err, slot |-> slot]
    /\ UNCHANGED <<origin, reader, read_models, dispatch_log, issued>>

\* Repository.get(entity_id); the entity returned becomes a new object.
Get(entity_id) ==
    /\ Len(entities) < MaxSlots
    /\ LET r == get(event_store, entity_id)
       IN  /\ event_store' = r.store
           /\ IF r.err = "none"
              THEN /\ entities' = Append(entities, r.obj)
                   /\ origin' = Append(origin, "replayed")
              ELSE UNCHANGED <<entities, origin>>
           /\ last' = [op |-> "get", err |-> r.err,
                       slot |-> IF r.err = "none" THEN Len(entities) + 1 ELSE 0]
    /\ UNCHANGED <<store_log, reader, read_models, dispatch_log, issued>>

\* The events a caller hands to EventStore.store directly.
StoredEvents ==
    {AccountCreated(u, 3) : u \in UUID} \cup {MoneyWithdrawn(Uuid(1), 1)}

Batches ==
    UNION {[1..n -> StoredEvents] : n \in 0..MaxBatch}

\* event_store.store(producer_id, events), called directly
Store(producer_id, events) ==
    /\ Len(event_store._global_stream) + Len(events) <= MaxStored
    /\ event_store' = store(event_store, producer_id, events)
    /\ store_log' = store_log \o Logged(producer_id, events)
    /\ issued' = issued \cup {producer_id} \cup {events[i].producer_id : i \in 1..Len(events)}
    /\ last' = [op |-> "store", err |-> "none"]
    /\ UNCHANGED <<entities, origin, reader, read_models, dispatch_log>>

\* ---- actions: read side -----------------------------------------------------
TypeLists ==
    {<<"AccountCreated">>, <<"MoneyWithdrawn">>,
     <<"AccountCreated", "MoneyWithdrawn">>}

\* reader.register(read_model, *events)
Register(read_model, events) ==
    /\ \A i \in 1..Len(events) :
          Len(getitem_default(reader._handlers, events[i])[events[i]]) < MaxHandlers
    /\ reader' = register(reader, read_model, events)
    /\ last' = [op |-> "register", err |-> "none"]
    /\ UNCHANGED <<entities, origin, event_store, store_log, read_models,
                   dispatch_log, issued>>

\* reader.update_all()
UpdateAll ==
    /\ LET r == update_all(reader, event_store, read_models, dispatch_log)
       IN  /\ reader' = r.reader
           /\ read_models' = r.read_models
           /\ dispatch_log' = r.log
           /\ last' = [op |-> "update_all", err |-> r.err,
                       dispatched |-> Len(r.log) - Len(dispatch_log)]
    /\ UNCHANGED <<entities, origin, event_store, store_log, issued>>

\* ---- actions: application ---------------------------------------------------
\* app.handle(CreateAccount(with_deposit))
HandleCreateAccount(with_deposit) ==
    /\ HasFreshUuid
    /\ Len(event_store._global_stream) < MaxStream
    /\ LET r == handle_CreateAccount(event_store, uuid4, with_deposit)
       IN  /\ event_store' = r.store
           /\ store_log' = store_log \o LoggedSave(Account(uuid4, with_deposit).obj)
           /\ last' = [op |-> "CreateAccount", err |-> r.err]
    /\ issued' = issued \cup {uuid4}
    /\ UNCHANGED <<entities, origin, reader, read_models, dispatch_log>>

\* app.handle(Withdraw(account_id, amount))
HandleWithdraw(account_id, amount) ==
    /\ Len(event_store._global_stream) < MaxStream
    /\ LET r == handle_Withdraw(event_store, account_id, amount)
       IN  /\ event_store' = r.store
           /\ store_log' = store_log \o
                 (IF r.err = "none"
                  THEN LoggedSave(withdraw(get(event_store, account_id).obj, amount).obj)
                  ELSE <<>>)
           /\ last' = [op |-> "Withdraw", err |-> r.err]
    /\ UNCHANGED <<entities, origin, reader, read_models, dispatch_log, issued>>

\* ---- internal_dsl.py: Driver ------------------------------------------------
\* Driver.create_account: app.handle(CreateAccount), then reader.update_all().
DriverCreateAccount(initial_deposit) ==
    /\ HasFreshUuid
    /\ Len(event_store._global_stream) < MaxStream
    /\ LET h == handle_CreateAccount(event_store, uuid4, initial_deposit)
           u == update_all(reader, h.store, read_models, dispatch_log)
       IN  /\ event_store' = h.store
           /\ store_log' = store_log \o LoggedSave(Account(uuid4, initial_deposit).obj)
           /\ IF h.err = "none"
              THEN /\ reader' = u.reader
                   /\ read_models' = u.read_models
                   /\ dispatch_log' = u.log
                   /\ last' = [op |-> "Driver.create_account", err |-> u.err]
              ELSE /\ UNCHANGED <<reader, read_models, dispatch_log>>
                   /\ last' = [op |-> "Driver.create_account", err |-> h.err]
    /\ issued' = issued \cup {uuid4}
    /\ UNCHANGED <<entities, origin>>

\* Driver.withdraw: app.handle(Withdraw), then reader.update_all().
DriverWithdraw(from_account, amount) ==
    /\ Len(event_store._global_stream) < MaxStream
    /\ LET h == handle_Withdraw(event_store, from_account, amount)
           u == update_all(reader, h.store, read_models, dispatch_log)
       IN  /\ event_store' = h.store
           /\ store_log' = store_log \o
                 (IF h.err = "none"
                  THEN LoggedSave(withdraw(get(event_store, from_account).obj, amount).obj)
                  ELSE <<>>)
           /\ IF h.err = "none"
              THEN /\ reader' = u.reader
                   /\ read_models' = u.read_models
                   /\ dispatch_log' = u.log
                   /\ last' = [op |-> "Driver.withdraw", err |-> u.err]
              ELSE /\ UNCHANGED <<reader, read_models, dispatch_log>>
                   /\ last' = [op |-> "Driver.withdraw", err |-> h.err]
    /\ UNCHANGED <<entities, origin, issued>>

\* ---- specifications -----------------------------------------------------
\* The write side: entities, the repository and the application handlers.
Next ==
    \/ \E d \in Deposits : NewAccount(d)
    \/ \E s \in Slots, a \in Amounts : Withdraw(s, a)
    \/ \E s \in Slots : Save(s)
    \/ \E u \in UUID : Get(u)

Spec == Init /\ [][Next]_vars

\* The application handlers, and a caller that holds one account, loaded
\* or newly made, and withdraws from it.
NextApp ==
    \/ \E d \in Deposits : HandleCreateAccount(d)
    \/ \E u \in UUID, a \in Amounts : HandleWithdraw(u, a)
    \/ entities = <<>> /\ \E u \in UUID : Get(u)
    \/ entities = <<>> /\ \E d \in Deposits : NewAccount(d)
    \/ \E s \in Slots, a \in Amounts : Withdraw(s, a)

SpecApp == Init /\ [][NextApp]_vars

\* The event store under direct store calls and the saves of one account.
NextStore ==
    \/ \E u \in UUID, es \in Batches : Store(u, es)
    \/ entities = <<>> /\ NewAccount(3)
    \/ \E s \in Slots : Withdraw(s, 1)
    \/ \E s \in Slots : Save(s)

SpecStore == Init /\ [][NextStore]_vars

\* The reader over a store that is fed directly.
NextReader ==
    \/ \E es \in Batches \ {<<>>} : Store(es[1].producer_id, es)
    \/ \E m \in ReadModels, ts \in TypeLists : Register(m, ts)
    \/ UpdateAll

SpecReader == InitReader /\ [][NextReader]_vars

\* The Driver of internal_dsl.py: commands, each followed by update_all.
NextDriver ==
    \/ \E d \in DriverMoney : DriverCreateAccount(d)
    \/ \E u \in UUID, a \in DriverMoney : DriverWithdraw(u, a)

SpecDriver == InitDriver /\ [][NextDriver]_vars

\* ---- claims: the Account entity ---------------------------------------------
\* C1: replaying the uncommitted changes of a freshly constructed Account, in
\* order, onto Entity.construct() gives the same id and the same balance.
C1_ReplayDeterminism ==
    \A s \in 1..Len(entities) :
        origin[s] = "fresh" =>
            LET r == reduce__apply_event(uncommitted_changes(entities[s]), construct)
            IN  /\ r.err = "none"
                /\ id(r.obj) = id(entities[s])
                /\ HasAttr(r.obj, "_balance")
                /\ r.obj._balance = entities[s]._balance

\* A fresh account after two successful withdrawals.
C1_Witness ==
    \E s \in 1..Len(entities) :
        /\ origin[s] = "fresh"
        /\ Len(entities[s]._changes) = 3
        /\ entities[s]._balance = 0

\* C8: withdraw(amount) with balance >= amount appends exactly one
\* MoneyWithdrawn(producer_id = id, amount) as the last uncommitted change and
\* decreases the balance by exactly amount.
C8_WithdrawSucceeds ==
    [][\A s \in Slots, a \in Amounts :
          (Withdraw(s, a) /\ HasAttr(entities[s], "_balance")
                          /\ entities[s]._balance >= a)
          => /\ last'.err = "none"
             /\ entities'[s]._changes =
                   Append(entities[s]._changes,
                          [type |-> "MoneyWithdrawn",
                           producer_id |-> entities[s]._id, amount |-> a])
             /\ entities'[s]._balance = entities[s]._balance - a
             /\ entities'[s]._id = entities[s]._id]_vars

\* A withdrawal of the whole balance has just succeeded.
C8_Witness ==
    /\ last.op = "withdraw"
    /\ last.err = "none"
    /\ entities[last.slot]._balance = 0
    /\ entities[last.slot]._changes[Len(entities[last.slot]._changes)].type
          = "MoneyWithdrawn"

\* C9: Account(deposit) leaves exactly one uncommitted change, the
\* AccountCreated event with that deposit and the account's id; every
\* uncommitted change of every entity carries the entity's id, and an id, once
\* set, never changes.
C9_IdentityInEvents ==
    [][/\ \A d \in Deposits :
             NewAccount(d) =>
                LET account == entities'[Len(entities')]
                IN  account._changes =
                       <<[type |-> "AccountCreated",
                          producer_id |-> account._id, deposit |-> d]>>
       /\ \A s \in 1..Len(entities') :
             \A i \in 1..Len(entities'[s]._changes) :
                /\ HasAttr(entities'[s], "_id")
                /\ entities'[s]._changes[i].producer_id = entities'[s]._id
       /\ \A s \in 1..Len(entities) :
             HasAttr(entities[s], "_id") =>
                /\ HasAttr(entities'[s], "_id")
                /\ entities'[s]._id = entities[s]._id]_vars

\* Two accounts with different ids, one of them with a withdrawal buffered.
C9_Witness ==
    /\ Len(entities) = 2
    /\ origin = <<"fresh", "fresh">>
    /\ entities[1]._id # entities[2]._id
    /\ Len(entities[1]._changes) >= 2
    /\ last.op = "withdraw"

\* ---- claims: the event store and the repository -----------------------------
\* The events the history records, and those it records under one producer id.
LoggedEvents ==
    [i \in 1..Len(store_log) |-> store_log[i][2]]

LoggedFor(producer_id) ==
    LET under(entry) == entry[1] = producer_id
        entries == SelectSeq(store_log, under)
    IN  [i \in 1..Len(entries) |-> entries[i][2]]

\* C2: right after a save of a freshly constructed Account, Repository.get of
\* its id returns an entity with the same id and the same balance, replayed
\* from exactly the events stored under that id, in the order they were stored.
C2_SaveGetRoundTrip ==
    (last.op = "save" /\ origin[last.slot] = "fresh") =>
        LET account == entities[last.slot]
            retrieved == get(event_store, account._id)
        IN  /\ last.err = "none"
            /\ retrieved.err = "none"
            /\ id(retrieved.obj) = id(account)
            /\ HasAttr(retrieved.obj, "_balance")
            /\ retrieved.obj._balance = account._balance
            /\ all_events_for(event_store, account._id).items = LoggedFor(account._id)
            /\ retrieved.store = event_store

\* The account was saved, withdrawn from and saved again.
C2_Witness ==
    /\ last.op = "save"
    /\ origin[last.slot] = "fresh"
    /\ Len(entities[last.slot]._changes) = 2
    /\ Len(all_events_for(event_store, entities[last.slot]._id).items) = 3

\* C3: all_streams() yields every stored event in the order stored, and
\* all_events_for(id) yields exactly the events stored under id, in the
\* order they have in the global stream.
C3_AppendOrder ==
    /\ all_streams(event_store) = LoggedEvents
    /\ \A u \in UUID : all_events_for(event_store, u).items = LoggedFor(u)

\* Three events stored under two producer ids, the second id in the middle.
C3_Witness ==
    /\ Len(store_log) = 3
    /\ store_log[1][1] = store_log[3][1]
    /\ store_log[1][1] # store_log[2][1]
    /\ store_log[1][2] # store_log[3][2]
    /\ last.op = "store"

\* The positions of the global stream that were stored under producer_id.
RECURSIVE PositionsOf(_, _)
PositionsOf(producer_id, n) ==
    IF n = 0 THEN <<>>
    ELSE IF store_log[n][1] = producer_id
         THEN Append(PositionsOf(producer_id, n - 1), n)
         ELSE PositionsOf(producer_id, n - 1)

\* C4 as stated: every event is in exactly one per-id stream and occurs
\* exactly once in the global stream.
C4_EventsAreUnique ==
    LET global == event_store._global_stream
        streams == event_store._event_streams
    IN  \A i \in 1..Len(global) :
           /\ \A j \in 1..Len(global) : global[j] = global[i] => j = i
           /\ Cardinality({u \in DOMAIN streams :
                  \E k \in 1..Len(streams[u]) : streams[u][k] = global[i]}) = 1

\* C4 amended: every stored occurrence of an event has exactly one position
\* in the global stream and exactly one in the per-id stream of the producer
\* id it was stored under, in the same relative order in both.
C4_OccurrencesPartition ==
    LET global == event_store._global_stream
        streams == event_store._event_streams
    IN  /\ Len(global) = Len(store_log)
        /\ \A u \in UUID :
              LET at == PositionsOf(u, Len(store_log))
              IN  IF at = <<>>
                  THEN u \in DOMAIN streams => streams[u] = <<>>
                  ELSE /\ u \in DOMAIN streams
                       /\ Len(streams[u]) = Len(at)
                       /\ \A k \in 1..Len(at) : streams[u][k] = global[at[k]]

\* An entity was saved twice: its creation event occurs twice in the store.
C4_Witness ==
    /\ last.op = "save"
    /\ Len(event_store._global_stream) >= 2
    /\ event_store._global_stream[1] = event_store._global_stream[2]
    /\ \E u \in DOMAIN event_store._event_streams :
          Len(event_store._event_streams[u]) < Len(event_store._global_stream)

\* C7: withdraw(amount) with amount greater than the balance raises
\* NotEnoughMoney and leaves the entity as it was; through
\* AccountApp.handle(Withdraw) the event store is left as it was.
C7_RejectedWithdrawal ==
    [][/\ \A s \in Slots, a \in Amounts :
             (Withdraw(s, a) /\ HasAttr(entities[s], "_balance")
                             /\ a > entities[s]._balance)
             => /\ last'.err = "NotEnoughMoney"
                /\ entities'[s]._changes = entities[s]._changes
                /\ entities'[s]._balance = entities[s]._balance
                /\ entities'[s]._id = entities[s]._id
                /\ entities' = entities
       /\ \A u \in UUID, a \in Amounts :
             LET account == get(event_store, u)
             IN  (HandleWithdraw(u, a) /\ account.err = "none"
                    /\ HasAttr(account.obj, "_balance")
                    /\ a > account.obj._balance)
                 => /\ last'.err = "NotEnoughMoney"
                    /\ event_store' = event_store
                    /\ store_log' = store_log]_vars

\* A loaded account with a withdrawal buffered has just refused a second one.
C7_Witness ==
    /\ last.op = "withdraw"
    /\ last.err = "NotEnoughMoney"
    /\ Len(entities[last.slot]._changes) = 1
    /\ entities[last.slot]._balance = 1
    /\ Len(event_store._global_stream) >= 1

\* ---- claims: the read side ----------------------------------------------------
\* read_model occurs exactly once in the handler list of every event type.
RegisteredOnce(read_model) ==
    \A t \in EventTypes :
        /\ t \in DOMAIN reader._handlers
        /\ Cardinality({i \in 1..Len(reader._handlers[t]) :
                            reader._handlers[t][i] = read_model}) = 1

\* C5: after update_all, a projection registered for all event types has
\* handled the whole global stream, each event once and in stream order.
C5_ExactlyOnceInOrder ==
    (last.op = "update_all" /\ RegisteredOnce("collector_1")) =>
        read_models["collector_1"].handled_events = all_streams(event_store)

\* C6: after a Driver command, the BalanceView reports for every stored
\* account the balance Repository.get replays for it.
C6_ReadSideAgrees ==
    \A u \in DOMAIN event_store._event_streams :
        LET account == get(event_store, u)
        IN  (account.err = "none" /\ HasAttr(account.obj, "_balance")) =>
                for_account(read_models["balance_view"], u)
                    = Returned(account.obj._balance)

\* What update_all has to hand out for a stream: every event to every
\* read model in names, in the order of names.
RECURSIVE FanOut(_, _)
FanOut(events, names) ==
    IF events = <<>> THEN <<>>
    ELSE [i \in 1..Len(names) |-> <<names[i], Head(events)>>]
            \o FanOut(Tail(events), names)

\* C10: after update_all, two projections registered for the same event types
\* have handled the same sequence, the global stream, and for each event they
\* were called in registration order.
C10_FanOut ==
    (last.op = "update_all"
        /\ \A t \in EventTypes : reader._handlers[t] = <<"collector_1", "collector_2">>)
    => /\ read_models["collector_1"].handled_events = all_streams(event_store)
       /\ read_models["collector_2"].handled_events = all_streams(event_store)
       /\ dispatch_log = FanOut(all_streams(event_store),
                                <<"collector_1", "collector_2">>)

\* ---- claims: reading the global stream from an offset ------------------------
\* C11: for every k from 0 to the length of the global stream,
\* all_streams(start_at=k) returns the events at positions k, k+1, ... in
\* append order, and the Reader's call with its cursor returns the events
\* after the cursor.
C11_AllStreamsFromOffset ==
    LET stream == event_store._global_stream
    IN  /\ \A k \in 0..Len(stream) :
              call_all_streams(event_store, [start_at |-> k])
                  = Returned(SubSeq(stream, k + 1, Len(stream)))
        /\ _new_events(reader, event_store)
              = Returned(SubSeq(stream, reader._last_position + 1, Len(stream)))

\* ---- claims: what save leaves alone --------------------------------------------
\* C12: Repository.save leaves the entity as it was (same id, balance and
\* uncommitted changes) whether it returns or raises, and a save of an entity
\* with no uncommitted changes leaves the global stream and every per-id
\* stream with the events they had.
C12_SaveDoesNotMutate ==
    [][\A s \in Slots :
          Save(s) =>
            /\ entities' = entities
            /\ id(entities'[s]) = id(entities[s])
            /\ uncommitted_changes(entities'[s]) = uncommitted_changes(entities[s])
            /\ HasAttr(entities'[s], "_balance") = HasAttr(entities[s], "_balance")
            /\ (last'.err # "none") => event_store' = event_store
            /\ (uncommitted_changes(entities[s]) = <<>>) =>
                  /\ event_store'._global_stream = event_store._global_stream
                  /\ \A u \in DOMAIN event_store._event_streams :
                        event_store'._event_streams[u]
                            = event_store._event_streams[u]
                  /\ \A u \in DOMAIN event_store'._event_streams :
                        u \notin DOMAIN event_store._event_streams
                            => event_store'._event_streams[u] = <<>>]_vars

\* A save that stored two buffered events has just returned, and the entity
\* still holds both.
C12_Witness ==
    /\ last.op = "save"
    /\ last.err = "none"
    /\ Len(entities[last.slot]._changes) = 2
    /\ Len(event_store._global_stream) >= 2
    /\ entities[last.slot]._balance = 1

\* ---- claims: replay does not buffer ---------------------------------------------
\* C13: the entity Repository.get returns has no uncommitted changes whatever
\* its stream holds, and a Withdraw command that succeeds appends exactly one
\* event, the new MoneyWithdrawn, to the global stream and to the stream of
\* the account, after everything they held.
C13_HydrateNeverBuffers ==
    /\ [](\A u \in UUID :
             LET account == get(event_store, u)
             IN  account.err = "none" => uncommitted_changes(account.obj) = <<>>)
    /\ [](last.op = "get" /\ last.err = "none"
             => uncommitted_changes(entities[last.slot]) = <<>>)
    /\ [][\A u \in UUID, a \in Amounts :
             (HandleWithdraw(u, a) /\ last'.err = "none") =>
                /\ event_store'._global_stream
                      = Append(event_store._global_stream, MoneyWithdrawn(u, a))
                /\ event_store'._event_streams
                      = [event_store._event_streams EXCEPT
                            ![u] = Append(@, MoneyWithdrawn(u, a))]]_vars

\* A Withdraw command has succeeded on an account whose stream already held a
\* withdrawal: the stream has three events and the balance is spent.
C13_Witness ==
    /\ last.op = "Withdraw"
    /\ last.err = "none"
    /\ \E u \in DOMAIN event_store._event_streams :
          /\ event_store._event_streams[u]
                = <<AccountCreated(u, 2), MoneyWithdrawn(u, 1), MoneyWithdrawn(u, 1)>>
          /\ get(event_store, u).obj._balance = 0
          /\ get(event_store, u).obj._changes = <<>>

\* ---- claims: the projection's handler -------------------------------------------
\* The events a BalanceView can be handed: every variant, every producer id.
AnyEvent ==
    {Event(u) : u \in UUID}
        \cup {AccountCreated(u, d) : u \in UUID, d \in DriverMoney}
        \cup {MoneyWithdrawn(u, a) : u \in UUID, a \in DriverMoney}

\* C14: in every state the BalanceView can reach through Reader.register and
\* Reader.update_all, BalanceView.handle returns for every event of every
\* variant, and an event of a variant it does not model leaves it as it was.
C14_HandleIsTotal ==
    \A event \in AnyEvent :
        LET r == BalanceView_handle(read_models["balance_view"], event)
        IN  /\ r.err = "none"
            /\ event.type \notin EventTypes => r.obj = read_models["balance_view"]

\* ---- claims: looking up an id that has no events --------------------------------
\* producer_id has no stored events.
NoEventsFor(producer_id) ==
    \/ producer_id \notin DOMAIN event_store._event_streams
    \/ event_store._event_streams[producer_id] = <<>>

\* self has the global stream and every per-id stream of event_store, with
\* the same events.
SameContents(self) ==
    /\ self._global_stream = event_store._global_stream
    /\ \A u \in DOMAIN event_store._event_streams :
          /\ u \in DOMAIN self._event_streams
          /\ self._event_streams[u] = event_store._event_streams[u]

\* C15: for an id with no stored events, all_events_for yields nothing and
\* Repository.get returns, without raising, an entity with no id, no balance
\* and no uncommitted changes; neither call changes the global stream or a
\* per-id stream that exists.
C15_UnknownIdIsBlank ==
    /\ [](\A u \in UUID :
             NoEventsFor(u) =>
                LET changes == all_events_for(event_store, u)
                    account == get(event_store, u)
                IN  /\ changes.items = <<>>
                    /\ SameContents(changes.self)
                    /\ account.err = "none"
                    /\ ~HasAttr(account.obj, "_id")
                    /\ ~HasAttr(account.obj, "_balance")
                    /\ uncommitted_changes(account.obj) = <<>>
                    /\ SameContents(account.store))
    /\ [][\A u \in UUID :
             (Get(u) /\ NoEventsFor(u)) =>
                /\ last'.err = "none"
                /\ entities'[last'.slot] = construct
                /\ SameContents(event_store')]_vars

\* Repository.get has just returned a blank entity from a store that holds
\* the events of another account.
C15_Witness ==
    /\ last.op = "get"
    /\ last.err = "none"
    /\ entities[last.slot] = construct
    /\ Len(event_store._global_stream) >= 2
    /\ \E u \in DOMAIN event_store._event_streams :
          event_store._event_streams[u] = <<>>

\* ---- claims: interleaved read-modify-write cycles ------------------------------
\* Callers that each run Repository.get, withdraw and Repository.save as
\* separate steps on accounts the application created.
NextCycles ==
    \/ \E d \in Deposits : HandleCreateAccount(d)
    \/ \E u \in UUID : Get(u)
    \/ \E s \in Slots, a \in Amounts : Withdraw(s, a)
    \/ \E s \in Slots : Save(s)

SpecCycles == Init /\ [][NextCycles]_vars

\* Two cycles on account u, held in slots s and t, have both completed and
\* interleaved: both entities were replayed when the stream held only the
\* AccountCreated of u, each withdrew once (different amounts) and each was
\* saved once, so the stream holds the creation and the two withdrawals.
Interleaved(u, s, t) ==
    /\ s # t
    /\ origin[s] = "replayed" /\ origin[t] = "replayed"
    /\ u \in DOMAIN event_store._event_streams
    /\ Len(event_store._event_streams[u]) = 3
    /\ LET stream == event_store._event_streams[u]
           mine == entities[s]._changes
           theirs == entities[t]._changes
       IN  /\ stream[1].type = "AccountCreated"
           /\ mine = <<stream[2]>> /\ theirs = <<stream[3]>>
           /\ mine[1].type = "MoneyWithdrawn" /\ theirs[1].type = "MoneyWithdrawn"
           /\ mine[1].amount # theirs[1].amount
           /\ entities[s]._balance = stream[1].deposit - mine[1].amount
           /\ entities[t]._balance = stream[1].deposit - theirs[1].amount

\* The balance that reflects the creation and both withdrawals of the stream.
BothEffects(u) ==
    LET stream == event_store._event_streams[u]
    IN  stream[1].deposit - stream[2].amount - stream[3].amount

NextEntity ==
    \/ entities = <<>> /\ \E d \in Deposits : NewAccount(d)
    \/ entities = <<>> /\ Construct
    \/ \E s \in Slots, a \in Amounts : Withdraw(s, a)
    \/ \E s \in Slots, e \in EntityEvents : Take(s, e)
    \/ \E s \in Slots, e \in EntityEvents : Hydrate(s, e)

SpecEntity == Init /\ [][NextEntity]_vars

\* C18: _take of an event of a variant the entity has no handler for raises
\* UnknownEvent and leaves the entity as it was: the event is not buffered and
\* id and balance are unchanged; hydrate of such an event raises UnknownEvent
\* as well.
C18_ApplyBeforeBuffer ==
    [][\A s \in Slots, e \in EntityEvents :
          e.type \notin EventTypes =>
             /\ Take(s, e) =>
                   /\ last'.err = "UnknownEvent"
                   /\ uncommitted_changes(entities'[s]) = uncommitted_changes(entities[s])
                   /\ entities' = entities
             /\ Hydrate(s, e) =>
                   /\ last'.err = "UnknownEvent"
                   /\ entities' = entities]_vars

\* _take has just raised UnknownEvent on an account that holds two buffered
\* events and a balance.
C18_Witness ==
    /\ last.op = "_take"
    /\ last.err = "UnknownEvent"
    /\ Len(entities[last.slot]._changes) = 2
    /\ entities[last.slot]._balance = 1
    /\ \A i \in 1..2 : entities[last.slot]._changes[i].type \in EventTypes

\* ---- claims: saving twice -----------------------------------------------------
\* The last Len(suffix) items of stream are suffix.
EndsWith(stream, suffix) ==
    /\ Len(stream) >= Len(suffix)
    /\ SubSeq(stream, Len(stream) - Len(suffix) + 1, Len(stream)) = suffix

\* C19: a save that returns leaves the buffer as it was and appends all of
\* it to the per-id stream and to the global stream, so a second save of the
\* unchanged entity appends the same n events again: after two saves in a
\* row both streams end with the buffer twice, 2*n events.
C19_SaveReappendsHistory ==
    [][\A s \in Slots :
          (Save(s) /\ last'.err = "none") =>
             LET changes == uncommitted_changes(entities[s])
                 u == entities[s]._id
                 streams == getitem_default(event_store._event_streams, u)
             IN  /\ uncommitted_changes(entities'[s]) = changes
                 /\ event_store'._global_stream
                       = event_store._global_stream \o changes
                 /\ event_store'._event_streams[u] = streams[u] \o changes
                 /\ (last.op = "save" /\ last.err = "none" /\ last.slot = s) =>
                       /\ EndsWith(event_store'._global_stream, changes \o changes)
                       /\ EndsWith(event_store'._event_streams[u], changes \o changes)]_vars

\* An account holding two uncommitted events has been saved twice: both
\* streams hold the two events twice, four in all.
C19_Witness ==
    /\ last.op = "save"
    /\ last.err = "none"
    /\ Len(entities[last.slot]._changes) = 2
    /\ LET changes == entities[last.slot]._changes
       IN  /\ event_store._global_stream = changes \o changes
           /\ event_store._event_streams[entities[last.slot]._id]
                 = changes \o changes

\* ---- claims: no overdraft ------------------------------------------------------
\* The BalanceView the loop of update_all builds when it is handed the whole
\* global stream: [err, reader, read_models, log].
ProjectedView ==
    update_loop(all_streams(event_store),
                [err |-> "none", reader |-> reader,
                 read_models |-> [read_models EXCEPT !["balance_view"] = BalanceView],
                 log |-> <<>>])

====
